---- MODULE Spec2Model ----
(***************************************************************************)
(* Model of the recurrent processors (packages ran and deltarnn) and of    *)
(* the sequence labeler's label decoder (mergeEntities/filterNotEntities). *)
(*                                                                         *)
(* A graph node (ag.Node) is a symbolic term: a tuple whose first element  *)
(* names the operator that produced it.  The values of the gate nodes,     *)
(* which Importance reads with Value(), are vectors of exact rationals.    *)
(***************************************************************************)
EXTENDS Integers, Sequences, FiniteSets, TLC

VARIABLES variant, procs, States, pc, xs, fi, ys, hbase, seeded, fed, exited,
          lastRet, impI, impK, scoresBuf, incForgetProd, importance,
          accOwner, impCalls,
          dTokens, dMode, dPhase, result, mIdx, newTokens, buf, text

\* The processors (ran and deltarnn):
\*   variant        the package the processors belong to, "ran" or "deltarnn"
\*   procs          the processors created by NewProc
\*   States[p]      Processor.States, the state history
\*   pc[p]          where the caller of processor p stands
\*   xs, fi, ys     Forward's arguments, loop index and result slice
\*   hbase[p]       len(p.States) on entry to the running Forward
\*   seeded[p]      SetInitialState has appended an initial state
\*   fed[p]         the inputs Forward has consumed so far, in order
\*   exited         log.Fatal has ended the program
\*   lastRet[p]     what LastState returned
\*   impI, impK, scoresBuf, incForgetProd, importance
\*                  the locals of Importance and scores
\*   accOwner[p]    whose storage incForgetProd is: Private, or the index of
\*                  the state whose ForG value matrix it shares
\*   impCalls[p]    the number of calls of Importance that have returned
\* The label decoder:
\*   dTokens        the tagged tokens Forward hands to Analyze
\*   dMode          Analyze's flags mergeEntities and filterNotEntities
\*   dPhase         where Analyze stands
\*   result         Analyze's result variable
\*   mIdx, newTokens, buf, text   the locals of mergeEntities
encVars == <<variant, procs, States, pc, xs, fi, ys, hbase, seeded, fed, exited,
             lastRet, impI, impK, scoresBuf, incForgetProd, importance,
             accOwner, impCalls>>
decVars == <<dTokens, dMode, dPhase, result, mIdx, newTokens, buf, text>>
vars == <<encVars, decVars>>

\* ---------------------------------------------------------------- bounds
MaxHist   == 3   \* longest state history of a processor running alone
MaxHistConc == 2 \* longest state history of each of two concurrent processors
MaxXs     == 2   \* longest argument list of one Forward call
NumInputs == 2   \* number of distinct input nodes
Dim       == 2   \* size of the gate vectors (the model's out size)
MaxTokens == 3   \* longest token sequence handed to the decoder
MaxImpCalls == 2 \* most calls of Importance on one processor

\* ------------------------------------------------------- exact rationals
RECURSIVE GCD(_, _)
GCD(a, b) == IF b = 0 THEN a ELSE GCD(b, a % b)

Rat(n, d) == LET g == GCD(n, d) IN <<n \div g, d \div g>>
RMul(a, b) == Rat(a[1] * b[1], a[2] * b[2])
RLeq(a, b) == a[1] * b[2] <= b[1] * a[2]
Zero == <<0, 1>>

\* mat.Matrix operations used by scores
VProd(u, v) == [j \in 1..Dim |-> RMul(u[j], v[j])]
VMax(u) == CHOOSE m \in {u[j] : j \in 1..Dim} : \A j \in 1..Dim : RLeq(u[j], m)

\* ------------------------------------------------------------ graph nodes
Nil == <<"nil">>
Param(name) == <<"Param", name>>
X(id) == <<"X", id>>
Sigmoid(a) == <<"Sigmoid", a>>
Tanh(a) == <<"Tanh", a>>
Prod(a, b) == <<"Prod", a, b>>
Add(a, b) == <<"Add", a, b>>
Mul(a, b) == <<"Mul", a, b>>
ReverseSub(a, b) == <<"ReverseSub", a, b>>
NewScalar(c) == <<"Scalar", c>>

\* nn.Affine(g, b, w1, x1, w2, x2): b + w1.x1 (+ w2.x2 when x2 is present)
Affine3(b, w, x) == Add(b, Mul(w, x))
Affine5(b, w, x, wRec, yPrev) ==
    IF yPrev = Nil THEN Affine3(b, w, x)
    ELSE Add(Affine3(b, w, x), Mul(wRec, yPrev))

\* The value the graph engine computes for a sigmoid gate node: a vector of
\* Dim numbers strictly between 0 and 1, a function of the gate, of the input
\* node and of the presence of a previous output.
GateValue(gate, x, yPrev) ==
    [j \in 1..Dim |->
        Rat(1, 2 + ((x[2] + j + (IF gate = "ForG" THEN 1 ELSE 0)
                          + (IF yPrev = Nil THEN 0 ELSE 1)) % 3))]

Inputs == {X(id) : id \in 1..NumInputs}

RECURSIVE SeqsUpTo(_, _)
SeqsUpTo(S, n) ==
    IF n = 0 THEN {<<>>}
    ELSE LET R == SeqsUpTo(S, n - 1)
         IN R \cup {Append(r, e) : r \in {q \in R : Len(q) = n - 1}, e \in S}

\* ------------------------------------------------------------- processors
\* the nil *State
NilState == [nil |-> TRUE]

\* LastState returning the oldest state instead of the newest
LastStateFirst(states) ==
    LET n == Len(states)
    IN IF n = 0 THEN NilState ELSE states[1]

\* LastState returning the state before the last one when there is one
LastStateStale(states) ==
    LET n == Len(states)
    IN IF n = 0 THEN NilState ELSE IF n = 1 THEN states[1] ELSE states[n - 1]

\* LastState: nil when there are no states, else the last one
LastState(states) ==
    LET n == Len(states)
    IN IF n = 0 THEN NilState ELSE states[n]

\* ran.Processor.prev
ranPrev(states) ==
    LET s == LastState(states)
    IN IF s # NilState THEN [yPrev |-> s.Y, cPrev |-> s.Y]
       ELSE [yPrev |-> Nil, cPrev |-> Nil]

\* ran.Processor.forward adding the forget term whether or not cPrev is nil
ranForwardAlwaysForget(states, x) ==
    LET pr   == ranPrev(states)
        inG  == Sigmoid(Affine5(Param("BIn"), Param("WIn"), x,
                                Param("WInRec"), pr.yPrev))
        forG == Sigmoid(Affine5(Param("BFor"), Param("WFor"), x,
                                Param("WForRec"), pr.yPrev))
        cand == Affine3(Param("BCand"), Param("WCand"), x)
        c    == Add(Prod(inG, cand), Prod(forG, pr.cPrev))
    IN [InG |-> inG, ForG |-> forG, Cand |-> cand, C |-> c, Y |-> Tanh(c),
        InGValue |-> GateValue("InG", x, pr.yPrev),
        ForGValue |-> GateValue("ForG", x, pr.yPrev)]

\* ran.Processor.forward
ranForward(states, x) ==
    LET pr   == ranPrev(states)
        inG  == Sigmoid(Affine5(Param("BIn"), Param("WIn"), x,
                                Param("WInRec"), pr.yPrev))
        forG == Sigmoid(Affine5(Param("BFor"), Param("WFor"), x,
                                Param("WForRec"), pr.yPrev))
        cand == Affine3(Param("BCand"), Param("WCand"), x)
        c0   == Prod(inG, cand)
        c    == IF pr.cPrev # Nil THEN Add(c0, Prod(forG, pr.cPrev)) ELSE c0
    IN [InG |-> inG, ForG |-> forG, Cand |-> cand, C |-> c, Y |-> Tanh(c),
        InGValue |-> GateValue("InG", x, pr.yPrev),
        ForGValue |-> GateValue("ForG", x, pr.yPrev)]

\* deltarnn.Processor.prev never finding a previous output
deltaPrevNone(states) == Nil

\* deltarnn.Processor.prev
deltaPrev(states) ==
    LET s == LastState(states)
    IN IF s # NilState THEN s.Y ELSE Nil

\* deltarnn.Processor.forward
deltaForward(states, x) ==
    LET yPrev == deltaPrev(states)
        wx    == Mul(Param("W"), x)
    IN IF yPrev = Nil
       THEN LET d1 == Prod(Param("Beta1"), wx)
                c  == Tanh(Add(d1, Param("B")))
                p  == Sigmoid(Add(wx, Param("BPart")))
            IN [D1 |-> d1, D2 |-> Nil, C |-> c, P |-> p,
                Y |-> Tanh(Prod(p, c))]
       ELSE LET wyRec == Mul(Param("WRec"), yPrev)
                d1 == Add(Prod(Param("Beta1"), wx), Prod(Param("Beta2"), wyRec))
                d2 == Prod(Prod(Param("Alpha"), wx), wyRec)
                c  == Tanh(Add(Add(d1, d2), Param("B")))
                p  == Sigmoid(Add(wx, Param("BPart")))
            IN [D1 |-> d1, D2 |-> d2, C |-> c, P |-> p,
                Y |-> Tanh(Add(Prod(p, c),
                               Prod(ReverseSub(p, NewScalar(1)), yPrev)))]

forward(v, states, x) ==
    IF v = "ran" THEN ranForward(states, x) ELSE deltaForward(states, x)

\* The states a caller may hand to SetInitialState
InitialState(v) ==
    IF v = "ran"
    THEN [InG |-> <<"Init", "InG">>, ForG |-> <<"Init", "ForG">>,
          Cand |-> <<"Init", "Cand">>, C |-> <<"Init", "C">>,
          Y |-> <<"Init", "Y">>,
          InGValue |-> [j \in 1..Dim |-> Rat(1, 2)],
          ForGValue |-> [j \in 1..Dim |-> Rat(2, 3)]]
    ELSE [D1 |-> <<"Init", "D1">>, D2 |-> <<"Init", "D2">>,
          C |-> <<"Init", "C">>, P |-> <<"Init", "P">>,
          Y |-> <<"Init", "Y">>]

AllProcs == {1, 2}

\* SetInitialState without the check of the history
SetInitialStateNoCheck(states, state) ==
    [fatal |-> FALSE, states |-> Append(states, state)]

\* SetInitialState: log.Fatal ends the program before the append
SetInitialStateOutcome(states, state) ==
    IF Len(states) > 0
    THEN [fatal |-> TRUE, states |-> states]
    ELSE [fatal |-> FALSE, states |-> Append(states, state)]

\* Forward handing out the cell value instead of the output
ForwardBodyOutC(v, states, out, i, x) ==
    LET s == forward(v, states, x)
    IN [states |-> Append(states, s), ys |-> [out EXCEPT ![i + 1] = s.C]]

\* Forward reading the previous state from one history shared by all processors
ForwardBodyShared(v, states, out, i, x) ==
    LET s == forward(v, States[1], x)
    IN [states |-> Append(states, s), ys |-> [out EXCEPT ![i + 1] = s.Y]]

\* Forward starting a new history at each call
ForwardBodyFresh(v, states, out, i, x) ==
    LET h == IF i = 0 THEN <<>> ELSE states
        s == forward(v, h, x)
    IN [states |-> Append(h, s), ys |-> [out EXCEPT ![i + 1] = s.Y]]

\* One iteration of Forward's loop (i counts from 0 as in the source)
ForwardBody(v, states, out, i, x) ==
    LET s == forward(v, states, x)
    IN [states |-> Append(states, s), ys |-> [out EXCEPT ![i + 1] = s.Y]]

\* states[k] with the source's indices, which count from 0
At(states, k) == states[k + 1]

\* A matrix is its elements and its storage: the storage of the ForG value
\* of state i belongs to that state, a freshly allocated one to nobody.
Private == -1

\* states[i].ForG.Value(): the matrix the node holds, not a copy
ForGMatrix(states, i) == [val |-> At(states, i).ForGValue, owner |-> i]

\* Clone handing back the matrix it was given
CloneSame(m) == m

\* Clone(): a fresh matrix with the same elements
Clone(m) == [val |-> m.val, owner |-> Private]

\* ProdInPlace writes the product into the storage of its receiver: the
\* history after the write
WriteThrough(states, owner, val) ==
    IF owner = Private THEN states
    ELSE [states EXCEPT ![owner + 1].ForGValue = val]

\* scores allocating one entry per step up to i only
scoresEntryRagged(states, i) ==
    LET m == Clone(ForGMatrix(states, i))
    IN [scores |-> [k \in 1..(i + 1) |-> Zero],
        incForgetProd |-> m.val, owner |-> m.owner,
        k |-> i]

\* scores starting the accumulator from ones instead of ForG[i]
scoresEntryOnes(states, i) ==
    [scores |-> [k \in 1..Len(states) |-> Zero],
     incForgetProd |-> [j \in 1..Dim |-> Rat(1, 1)], owner |-> Private,
     k |-> i]

\* scores: the state of the local variables on entry to the loop
scoresEntry(states, i) ==
    LET m == Clone(ForGMatrix(states, i))
    IN [scores |-> [k \in 1..Len(states) |-> Zero],
        incForgetProd |-> m.val, owner |-> m.owner,
        k |-> i]

\* scores multiplying the forget gate in at k = 0 too
scoresBodyAlways(states, st) ==
    LET k    == st.k
        inG  == At(states, k).InGValue
        forG == At(states, k).ForGValue
        acc  == VProd(st.incForgetProd, forG)
    IN [scores |-> [st.scores EXCEPT ![k + 1] = VMax(VProd(inG, st.incForgetProd))],
        incForgetProd |-> acc,
        owner |-> st.owner,
        states |-> WriteThrough(states, st.owner, acc),
        k |-> k - 1]

\* scores: one iteration of the loop over k.  Prod returns a new matrix,
\* ProdInPlace writes into incForgetProd.
scoresBody(states, st) ==
    LET k    == st.k
        inG  == At(states, k).InGValue
        forG == At(states, k).ForGValue
        acc  == IF k > 0 THEN VProd(st.incForgetProd, forG)
                ELSE st.incForgetProd
    IN [scores |-> [st.scores EXCEPT ![k + 1] = VMax(VProd(inG, st.incForgetProd))],
        incForgetProd |-> acc,
        owner |-> st.owner,
        states |-> IF k > 0 THEN WriteThrough(states, st.owner, acc) ELSE states,
        k |-> k - 1]

\* --------------------------------------------------- initial state
NotCalled == [notCalled |-> TRUE]

EncInit(ps) ==
    /\ variant \in {"ran", "deltarnn"}
    /\ procs = ps
    /\ States = [p \in AllProcs |-> <<>>]
    /\ pc = [p \in AllProcs |-> "idle"]
    /\ xs = [p \in AllProcs |-> <<>>]
    /\ fi = [p \in AllProcs |-> 0]
    /\ ys = [p \in AllProcs |-> <<>>]
    /\ hbase = [p \in AllProcs |-> 0]
    /\ seeded = [p \in AllProcs |-> FALSE]
    /\ fed = [p \in AllProcs |-> <<>>]
    /\ exited = FALSE
    /\ lastRet = [p \in AllProcs |-> NotCalled]
    /\ impI = [p \in AllProcs |-> 0]
    /\ impK = [p \in AllProcs |-> 0]
    /\ scoresBuf = [p \in AllProcs |-> <<>>]
    /\ incForgetProd = [p \in AllProcs |-> <<>>]
    /\ importance = [p \in AllProcs |-> <<>>]
    /\ accOwner = [p \in AllProcs |-> Private]
    /\ impCalls = [p \in AllProcs |-> 0]

\* ------------------------------------------------ processor actions
impVars == <<impI, impK, scoresBuf, incForgetProd, importance, accOwner, impCalls>>

SetInitialState(p) ==
    /\ ~exited /\ pc[p] = "idle"
    /\ LET r == SetInitialStateOutcome(States[p], InitialState(variant))
       IN /\ States' = [States EXCEPT ![p] = r.states]
          /\ exited' = r.fatal
          /\ pc' = [pc EXCEPT ![p] = IF r.fatal THEN "fatal" ELSE "idle"]
          /\ seeded' = [seeded EXCEPT ![p] = seeded[p] \/ ~r.fatal]
    /\ UNCHANGED <<variant, procs, xs, fi, ys, hbase, fed, lastRet, impVars, decVars>>

\* the bound on the histories, by the number of processors running
HistBound == IF Cardinality(procs) > 1 THEN MaxHistConc ELSE MaxHist

ForwardCall(p) ==
    /\ ~exited /\ pc[p] = "idle"
    /\ \E args \in SeqsUpTo(Inputs, MaxXs) :
          /\ Len(States[p]) + Len(args) <= HistBound
          /\ xs' = [xs EXCEPT ![p] = args]
          /\ ys' = [ys EXCEPT ![p] = [j \in 1..Len(args) |-> Nil]]
    /\ fi' = [fi EXCEPT ![p] = 0]
    /\ hbase' = [hbase EXCEPT ![p] = Len(States[p])]
    /\ pc' = [pc EXCEPT ![p] = "forward"]
    /\ UNCHANGED <<variant, procs, States, seeded, fed, exited, lastRet, impVars, decVars>>

ForwardIter(p) ==
    /\ ~exited /\ pc[p] = "forward" /\ fi[p] < Len(xs[p])
    /\ LET r == ForwardBody(variant, States[p], ys[p], fi[p], xs[p][fi[p] + 1])
       IN /\ States' = [States EXCEPT ![p] = r.states]
          /\ ys' = [ys EXCEPT ![p] = r.ys]
    /\ fi' = [fi EXCEPT ![p] = fi[p] + 1]
    /\ fed' = [fed EXCEPT ![p] = Append(fed[p], xs[p][fi[p] + 1])]
    /\ UNCHANGED <<variant, procs, pc, xs, hbase, seeded, exited, lastRet, impVars, decVars>>

ForwardReturn(p) ==
    /\ ~exited /\ pc[p] = "forward" /\ fi[p] >= Len(xs[p])
    /\ pc' = [pc EXCEPT ![p] = "returned"]
    /\ UNCHANGED <<variant, procs, States, xs, fi, ys, hbase, seeded, fed, exited, lastRet,
                   impVars, decVars>>

\* the caller takes Forward's result and is free to call again
ForwardDone(p) ==
    /\ ~exited /\ pc[p] = "returned"
    /\ pc' = [pc EXCEPT ![p] = "idle"]
    /\ xs' = [xs EXCEPT ![p] = <<>>]
    /\ ys' = [ys EXCEPT ![p] = <<>>]
    /\ fi' = [fi EXCEPT ![p] = 0]
    /\ hbase' = [hbase EXCEPT ![p] = 0]
    /\ UNCHANGED <<variant, procs, States, seeded, fed, exited, lastRet, impVars, decVars>>

\* a goroutine that ran Forward on its sequence ends
GoroutineEnd(p) ==
    /\ ~exited /\ pc[p] = "returned"
    /\ pc' = [pc EXCEPT ![p] = "done"]
    /\ UNCHANGED <<variant, procs, States, xs, fi, ys, hbase, seeded, fed, exited, lastRet,
                   impVars, decVars>>

LastStateCall(p) ==
    /\ ~exited /\ pc[p] = "idle"
    /\ lastRet' = [lastRet EXCEPT ![p] = LastState(States[p])]
    /\ pc' = [pc EXCEPT ![p] = "gotLastState"]
    /\ UNCHANGED <<variant, procs, States, xs, fi, ys, hbase, seeded, fed, exited,
                   impVars, decVars>>

LastStateDone(p) ==
    /\ ~exited /\ pc[p] = "gotLastState"
    /\ lastRet' = [lastRet EXCEPT ![p] = NotCalled]
    /\ pc' = [pc EXCEPT ![p] = "idle"]
    /\ UNCHANGED <<variant, procs, States, xs, fi, ys, hbase, seeded, fed, exited,
                   impVars, decVars>>

\* Importance: make([][]float64, len(p.States)), then one call of scores per row
ImportanceCall(p) ==
    /\ ~exited /\ pc[p] = "idle" /\ variant = "ran"
    /\ impCalls[p] < MaxImpCalls
    /\ importance' = [importance EXCEPT ![p] = [i \in 1..Len(States[p]) |-> <<>>]]
    /\ impI' = [impI EXCEPT ![p] = 0]
    /\ pc' = [pc EXCEPT ![p] = "importance"]
    /\ UNCHANGED <<variant, procs, States, xs, fi, ys, hbase, seeded, fed, exited, lastRet,
                   impK, scoresBuf, incForgetProd, accOwner, impCalls, decVars>>

ScoresCall(p) ==
    /\ ~exited /\ pc[p] = "importance" /\ impI[p] < Len(importance[p])
    /\ LET st == scoresEntry(States[p], impI[p])
       IN /\ scoresBuf' = [scoresBuf EXCEPT ![p] = st.scores]
          /\ incForgetProd' = [incForgetProd EXCEPT ![p] = st.incForgetProd]
          /\ impK' = [impK EXCEPT ![p] = st.k]
          /\ accOwner' = [accOwner EXCEPT ![p] = st.owner]
    /\ pc' = [pc EXCEPT ![p] = "scores"]
    /\ UNCHANGED <<variant, procs, States, xs, fi, ys, hbase, seeded, fed, exited, lastRet,
                   impI, importance, impCalls, decVars>>

ScoresIter(p) ==
    /\ ~exited /\ pc[p] = "scores" /\ impK[p] >= 0
    /\ LET st == scoresBody(States[p],
                            [scores |-> scoresBuf[p],
                             incForgetProd |-> incForgetProd[p],
                             owner |-> accOwner[p],
                             k |-> impK[p]])
       IN /\ scoresBuf' = [scoresBuf EXCEPT ![p] = st.scores]
          /\ incForgetProd' = [incForgetProd EXCEPT ![p] = st.incForgetProd]
          /\ impK' = [impK EXCEPT ![p] = st.k]
          /\ States' = [States EXCEPT ![p] = st.states]
    /\ UNCHANGED <<variant, procs, pc, xs, fi, ys, hbase, seeded, fed, exited,
                   lastRet, impI, importance, accOwner, impCalls, decVars>>

ScoresReturn(p) ==
    /\ ~exited /\ pc[p] = "scores" /\ impK[p] < 0
    /\ importance' = [importance EXCEPT ![p][impI[p] + 1] = scoresBuf[p]]
    /\ impI' = [impI EXCEPT ![p] = impI[p] + 1]
    /\ pc' = [pc EXCEPT ![p] = "importance"]
    /\ UNCHANGED <<variant, procs, States, xs, fi, ys, hbase, seeded, fed, exited, lastRet,
                   impK, scoresBuf, incForgetProd, accOwner, impCalls, decVars>>

ImportanceReturn(p) ==
    /\ ~exited /\ pc[p] = "importance" /\ impI[p] >= Len(importance[p])
    /\ pc' = [pc EXCEPT ![p] = "gotImportance"]
    /\ impCalls' = [impCalls EXCEPT ![p] = impCalls[p] + 1]
    /\ UNCHANGED <<variant, procs, States, xs, fi, ys, hbase, seeded, fed, exited, lastRet,
                   impI, impK, scoresBuf, incForgetProd, importance, accOwner, decVars>>

\* the caller takes the table
ImportanceDone(p) ==
    /\ ~exited /\ pc[p] = "gotImportance"
    /\ pc' = [pc EXCEPT ![p] = "idle"]
    /\ importance' = [importance EXCEPT ![p] = <<>>]
    /\ impI' = [impI EXCEPT ![p] = 0]
    /\ impK' = [impK EXCEPT ![p] = 0]
    /\ scoresBuf' = [scoresBuf EXCEPT ![p] = <<>>]
    /\ incForgetProd' = [incForgetProd EXCEPT ![p] = <<>>]
    /\ accOwner' = [accOwner EXCEPT ![p] = Private]
    /\ UNCHANGED <<variant, procs, States, xs, fi, ys, hbase, seeded, fed, exited, lastRet,
                   impCalls, decVars>>

\* ------------------------------------------------------ label decoder
\* A string is the sequence of its characters.
Letters == <<"a", "b", "c", "d">>
Word(i) == <<Letters[((i - 1) % Len(Letters)) + 1]>>

\* entity type names
Types == {<<"L">>, <<"O">>}
Tag(prefix, type) == <<prefix, "-">> \o type

\* the tags a tagger may hand over: well-formed BIOES tags, the empty tag, a
\* tag shorter than the position prefix, a tag with an unknown first character
LabelSet ==
    {<<"O">>} \cup {Tag(pre, t) : pre \in {"S", "B", "I", "E"}, t \in Types}
        \cup {<<>>, <<"S">>, <<"X", "-", "L">>}

\* TokenLabel of the i-th token of a text: the tokenizer's offsets increase
TokenAt(i, label) ==
    [String |-> Word(i),
     Offsets |-> [Start |-> 4 * (i - 1), End |-> 4 * (i - 1) + 3],
     Label |-> label]

TokenSeqs ==
    {[i \in 1..Len(ls) |-> TokenAt(i, ls[i])] : ls \in SeqsUpTo(LabelSet, MaxTokens)}

\* TokenLabel{}
ZeroToken ==
    [String |-> <<>>, Offsets |-> [Start |-> 0, End |-> 0], Label |-> <<>>]

\* s[2:]; defined for len(s) >= 2 only
From2(s) == SubSeq(s, 3, Len(s))

\* mergeEntities: the local variables before the loop
mergeEntry ==
    [newTokens |-> <<>>, buf |-> ZeroToken, text |-> <<>>, panicked |-> FALSE]

\* case 'B' without text.Reset()
caseBNoReset(st, token) ==
    IF Len(token.Label) < 2
    THEN [st EXCEPT !.text = @ \o token.String, !.buf = ZeroToken, !.panicked = TRUE]
    ELSE [st EXCEPT !.text = @ \o token.String,
                    !.buf = [ZeroToken EXCEPT
                               !.Label = From2(token.Label),
                               !.Offsets.Start = token.Offsets.Start]]

\* case 'B': reset the buffer, write the text, start a new accumulator
caseB(st, token) ==
    IF Len(token.Label) < 2
    THEN [st EXCEPT !.text = token.String, !.buf = ZeroToken, !.panicked = TRUE]
    ELSE [st EXCEPT !.text = token.String,
                    !.buf = [ZeroToken EXCEPT
                               !.Label = From2(token.Label),
                               !.Offsets.Start = token.Offsets.Start]]

\* case 'I': write " " and the text
caseI(st, token) == [st EXCEPT !.text = @ \o <<" ">> \o token.String]

\* case 'E' putting the entity in front of the output
caseEPrepend(st, token) ==
    LET t == st.text \o <<" ">> \o token.String
        b == [st.buf EXCEPT !.String = t, !.Offsets.End = token.Offsets.End]
    IN [st EXCEPT !.text = t, !.buf = b, !.newTokens = <<b>> \o @]

\* case 'E' with the output holding references to buf: the entries emitted
\* from buf change with it
caseEShared(st, token) ==
    LET t == st.text \o <<" ">> \o token.String
        b == [st.buf EXCEPT !.String = t, !.Offsets.End = token.Offsets.End]
    IN [st EXCEPT !.text = t, !.buf = b,
                  !.newTokens = Append([m \in DOMAIN @ |->
                                           IF @[m] = st.buf THEN b ELSE @[m]], b)]

\* case 'E' clearing the accumulator after the entity is emitted
caseEReset(st, token) ==
    LET t == st.text \o <<" ">> \o token.String
        b == [st.buf EXCEPT !.String = t, !.Offsets.End = token.Offsets.End]
    IN [st EXCEPT !.text = <<>>, !.buf = ZeroToken, !.newTokens = Append(@, b)]

\* case 'E': write " " and the text, close the accumulator and emit it
caseE(st, token) ==
    LET t == st.text \o <<" ">> \o token.String
        b == [st.buf EXCEPT !.String = t, !.Offsets.End = token.Offsets.End]
    IN [st EXCEPT !.text = t, !.buf = b, !.newTokens = Append(@, b)]

\* case 'O': the token goes to the output as it is
caseO(st, token) == [st EXCEPT !.newTokens = Append(@, token)]

\* case 'S' building the new token in buf
caseSInBuf(st, token) ==
    IF Len(token.Label) < 2 THEN [st EXCEPT !.panicked = TRUE]
    ELSE LET b == [token EXCEPT !.Label = From2(token.Label)]
         IN [st EXCEPT !.buf = b, !.newTokens = Append(@, b)]

\* case 'S': a copy of the token with the prefix cut off goes to the output
caseS(st, token) ==
    IF Len(token.Label) < 2 THEN [st EXCEPT !.panicked = TRUE]
    ELSE LET newToken == [token EXCEPT !.Label = From2(token.Label)]
         IN [st EXCEPT !.newTokens = Append(@, newToken)]

\* mergeEntities passing on the tokens whose tag it does not know
mergeBodyPassUnknown(st, token) ==
    IF Len(token.Label) = 0 THEN [st EXCEPT !.panicked = TRUE]
    ELSE LET c == token.Label[1]
         IN CASE c = "O" -> caseO(st, token)
              [] c = "S" -> caseS(st, token)
              [] c = "B" -> caseB(st, token)
              [] c = "I" -> caseI(st, token)
              [] c = "E" -> caseE(st, token)
              [] OTHER -> [st EXCEPT !.newTokens = Append(@, token)]

\* mergeEntities: one iteration of the loop.  Label[0] panics on an empty
\* label, Label[2:] on a label of one character.
mergeBody(st, token) ==
    IF Len(token.Label) = 0 THEN [st EXCEPT !.panicked = TRUE]
    ELSE LET c == token.Label[1]
         IN CASE c = "O" -> caseO(st, token)
              [] c = "S" -> caseS(st, token)
              [] c = "B" -> caseB(st, token)
              [] c = "I" -> caseI(st, token)
              [] c = "E" -> caseE(st, token)
              [] OTHER -> st

RECURSIVE mergeLoop(_, _, _)
mergeLoop(st, tokens, i) ==
    IF st.panicked \/ i > Len(tokens) THEN st
    ELSE mergeLoop(mergeBody(st, tokens[i]), tokens, i + 1)

\* mergeEntities as a function of its argument
mergeEntities(tokens) == mergeLoop(mergeEntry, tokens, 1)

\* filterNotEntities keeping the O tokens and dropping the others
keepTokenO(token) == token.Label = <<"O">>

keepToken(token) == token.Label # <<"O">>

filterNotEntities(tokens) == SelectSeq(tokens, keepToken)

DecInit ==
    /\ dTokens \in TokenSeqs
    /\ dMode \in [merge : BOOLEAN, filter : BOOLEAN]
    /\ dPhase = "start"
    /\ result = dTokens
    /\ mIdx = 0
    /\ newTokens = mergeEntry.newTokens
    /\ buf = mergeEntry.buf
    /\ text = mergeEntry.text

\* Analyze: if mergeEntities { result = m.mergeEntities(result) }
MergeCall ==
    /\ dPhase = "start" /\ dMode.merge
    /\ dPhase' = "merge"
    /\ mIdx' = 0
    /\ newTokens' = mergeEntry.newTokens
    /\ buf' = mergeEntry.buf
    /\ text' = mergeEntry.text
    /\ UNCHANGED <<dTokens, dMode, result, encVars>>

MergeSkip ==
    /\ dPhase = "start" /\ ~dMode.merge
    /\ dPhase' = "merged"
    /\ UNCHANGED <<dTokens, dMode, result, mIdx, newTokens, buf, text, encVars>>

MergeIter ==
    /\ dPhase = "merge" /\ mIdx < Len(result)
    /\ LET st == mergeBody([newTokens |-> newTokens, buf |-> buf, text |-> text,
                            panicked |-> FALSE], result[mIdx + 1])
       IN /\ newTokens' = st.newTokens
          /\ buf' = st.buf
          /\ text' = st.text
          /\ dPhase' = IF st.panicked THEN "panic" ELSE "merge"
    /\ mIdx' = mIdx + 1
    /\ UNCHANGED <<dTokens, dMode, result, encVars>>

MergeReturn ==
    /\ dPhase = "merge" /\ mIdx >= Len(result)
    /\ result' = newTokens
    /\ dPhase' = "merged"
    /\ UNCHANGED <<dTokens, dMode, mIdx, newTokens, buf, text, encVars>>

\* Analyze: if filterNotEntities { result = m.filterNotEntities(result) }
FilterCall ==
    /\ dPhase = "merged" /\ dMode.filter
    /\ result' = filterNotEntities(result)
    /\ dPhase' = "done"
    /\ UNCHANGED <<dTokens, dMode, mIdx, newTokens, buf, text, encVars>>

FilterSkip ==
    /\ dPhase = "merged" /\ ~dMode.filter
    /\ dPhase' = "done"
    /\ UNCHANGED <<dTokens, dMode, result, mIdx, newTokens, buf, text, encVars>>

\* the decoder at rest, for the specifications of the processors
DecIdle ==
    /\ dTokens = <<>>
    /\ dMode = [merge |-> FALSE, filter |-> FALSE]
    /\ dPhase = "idle"
    /\ result = <<>>
    /\ mIdx = 0
    /\ newTokens = <<>>
    /\ buf = ZeroToken
    /\ text = <<>>

\* -------------------------------------------------- specifications
\* one processor, of either variant
Init == EncInit({1}) /\ DecIdle

Next ==
    \/ \E p \in procs : SetInitialState(p)
    \/ \E p \in procs : ForwardCall(p)
    \/ \E p \in procs : ForwardIter(p)
    \/ \E p \in procs : ForwardReturn(p)
    \/ \E p \in procs : ForwardDone(p)
    \/ \E p \in procs : LastStateCall(p)
    \/ \E p \in procs : LastStateDone(p)
    \/ \E p \in procs : ImportanceCall(p)
    \/ \E p \in procs : ScoresCall(p)
    \/ \E p \in procs : ScoresIter(p)
    \/ \E p \in procs : ScoresReturn(p)
    \/ \E p \in procs : ImportanceReturn(p)
    \/ \E p \in procs : ImportanceDone(p)

Spec == Init /\ [][Next]_vars

\* two processors of one model, each run by its own goroutine on one sequence
InitConc == EncInit(AllProcs) /\ DecIdle

NextConc ==
    \/ \E p \in procs : SetInitialState(p)
    \/ \E p \in procs : ForwardCall(p)
    \/ \E p \in procs : ForwardIter(p)
    \/ \E p \in procs : ForwardReturn(p)
    \/ \E p \in procs : GoroutineEnd(p)

SpecConc == InitConc /\ [][NextConc]_vars

\* the label decoder on one tagged token sequence
InitDecode == EncInit({}) /\ variant = "ran" /\ DecInit

NextDecode ==
    \/ MergeCall
    \/ MergeSkip
    \/ MergeIter
    \/ MergeReturn
    \/ FilterCall
    \/ FilterSkip

SpecDecode == InitDecode /\ [][NextDecode]_vars

\* ============================================================ claims
\* the number of inputs a processor has processed
StepsProcessed(p) == Len(States[p]) - (IF seeded[p] THEN 1 ELSE 0)

\* the history of a processor running alone on the inputs it was fed
RECURSIVE RunAlone(_, _, _)
RunAlone(v, sd, inputs) ==
    IF Len(inputs) = 0 THEN (IF sd THEN <<InitialState(v)>> ELSE <<>>)
    ELSE LET h == RunAlone(v, sd, SubSeq(inputs, 1, Len(inputs) - 1))
         IN Append(h, forward(v, h, inputs[Len(inputs)]))

\* C1: when Forward returns, it returns exactly one output per input, and
\* output i is the Y of the state appended to the history for input i, in
\* both variants and whatever the history held at the call.
C1_ForwardOutputs ==
    \A p \in procs : pc[p] = "returned" =>
        /\ Len(ys[p]) = Len(xs[p])
        /\ Len(States[p]) = hbase[p] + Len(xs[p])
        /\ \A i \in 1..Len(xs[p]) :
              /\ ys[p][i] = States[p][hbase[p] + i].Y
              /\ States[p][hbase[p] + i] =
                    forward(variant, SubSeq(States[p], 1, hbase[p] + i - 1), xs[p][i])

C1_Witness ==
    \E p \in procs : pc[p] = "returned" /\ Len(xs[p]) = 2 /\ hbase[p] = 1 /\ seeded[p]

\* C2: SetInitialState on an empty history makes the supplied state the only
\* entry; after at least one processed step it ends the program (fatal) and
\* leaves every history as it was.
C2_SetInitialState ==
    [][\A p \in procs : SetInitialState(p) =>
          /\ Len(States[p]) = 0 =>
                States'[p] = <<InitialState(variant)>> /\ ~exited' /\ pc'[p] = "idle"
          /\ StepsProcessed(p) >= 1 =>
                exited' /\ pc'[p] = "fatal" /\ States' = States]_vars

C2_Witness ==
    \E p \in procs : pc[p] = "fatal" /\ exited /\ ~seeded[p] /\ StepsProcessed(p) >= 1

\* C3: every RAN state with a preceding history entry has
\* C = InG * Cand + ForG * cPrev, cPrev being the C of the preceding state.
C3_CellFromPrevC ==
    \A p \in procs : variant = "ran" =>
        \A t \in 2..Len(States[p]) :
            States[p][t].C =
                Add(Prod(States[p][t].InG, States[p][t].Cand),
                    Prod(States[p][t].ForG, States[p][t - 1].C))

\* the product of the forget gates of the steps lo..hi (indices from 0)
Ones == [j \in 1..Dim |-> Rat(1, 1)]

RECURSIVE ForGProduct(_, _, _)
ForGProduct(states, lo, hi) ==
    IF hi < lo THEN Ones
    ELSE VProd(ForGProduct(states, lo, hi - 1), At(states, hi).ForGValue)

MaxOf(a, b) == IF a >= b THEN a ELSE b

\* C7 as stated: after index k of row i has been processed the accumulator is
\* the product of ForG[k..i], each gate once.
C7_AccEachOnce ==
    \A p \in procs : (pc[p] = "scores" /\ impK[p] < impI[p]) =>
        incForgetProd[p] = ForGProduct(States[p], impK[p] + 1, impI[p])

\* C7 amended: after index k of row i has been processed the accumulator is
\* ForG[i] times the product of ForG[max(k,1)..i]: ForG[i] enters twice when
\* i > 0 (once as the seed, once at k = i) and ForG[0] is never multiplied in.
C7_AccAmended ==
    \A p \in procs : (pc[p] = "scores" /\ impK[p] < impI[p]) =>
        incForgetProd[p] =
            VProd(At(States[p], impI[p]).ForGValue,
                  ForGProduct(States[p], MaxOf(impK[p] + 1, 1), impI[p]))

C7_Witness ==
    \E p \in procs : pc[p] = "scores" /\ impI[p] = 2 /\ impK[p] = -1

\* C8 as stated: after n processed steps Importance returns n rows and row i
\* (from 0) has length i+1.  Stated for the processors that were not seeded,
\* where the history holds exactly the n processed steps.
C8_RaggedTable ==
    \A p \in procs : (pc[p] = "gotImportance" /\ ~seeded[p]) =>
        /\ Len(importance[p]) = StepsProcessed(p)
        /\ \A i \in 1..Len(importance[p]) : Len(importance[p][i]) = i

\* C8 amended: Importance returns one row per history entry, every row is as
\* long as the history, row i holds a score at each k <= i and the zero it
\* was allocated with at each k > i.
C8_SquareTable ==
    \A p \in procs : pc[p] = "gotImportance" =>
        LET h == Len(States[p])
        IN /\ Len(importance[p]) = h
           /\ \A i \in 1..h :
                 /\ Len(importance[p][i]) = h
                 /\ \A k \in 1..h :
                       IF k > i THEN importance[p][i][k] = Zero
                       ELSE importance[p][i][k] # Zero

C8_Witness ==
    \E p \in procs : pc[p] = "gotImportance" /\ Len(States[p]) = 3 /\ ~seeded[p]

\* C9 as stated: LastState returns nil whenever no input has been processed,
\* seeded or not, and the state of the latest step otherwise.
C9_LastStateBySteps ==
    \A p \in procs : pc[p] = "gotLastState" =>
        /\ StepsProcessed(p) = 0 => lastRet[p] = NilState
        /\ StepsProcessed(p) >= 1 => lastRet[p] = States[p][Len(States[p])]

\* C9 amended: LastState returns nil only when the history is empty; on a
\* seeded processor that has processed no input it returns the initial state;
\* after at least one step it returns the state that step produced.
C9_LastStateAmended ==
    \A p \in procs : pc[p] = "gotLastState" =>
        LET n == Len(States[p])
        IN /\ n = 0 => lastRet[p] = NilState
           /\ (n >= 1 /\ StepsProcessed(p) = 0) => lastRet[p] = InitialState(variant)
           /\ StepsProcessed(p) >= 1 =>
                 lastRet[p] = forward(variant, SubSeq(States[p], 1, n - 1),
                                      fed[p][Len(fed[p])])

C9_Witness ==
    \E p \in procs : pc[p] = "gotLastState" /\ seeded[p] /\ StepsProcessed(p) = 0

\* C10: under every interleaving of two processors of one model, each
\* processor's history, and the outputs of its Forward, are those of the
\* processor running alone on its own inputs.
C10_Independent ==
    \A p \in procs :
        LET alone == RunAlone(variant, seeded[p], fed[p])
        IN /\ States[p] = alone
           /\ pc[p] = "returned" =>
                 ys[p] = [i \in 1..Len(xs[p]) |-> alone[hbase[p] + i].Y]

C10_Witness ==
    /\ pc[1] = "forward" /\ pc[2] = "forward"
    /\ fi[1] >= 1 /\ fi[2] >= 1
    /\ fed[1] # fed[2]

\* ----- label decoder
\* the tags form a well-formed BIOES sequence: O, S-t, or B-t I-t* E-t
RECURSIVE WellFormedFrom(_, _, _)
WellFormedFrom(tokens, i, cur) ==
    IF i > Len(tokens) THEN cur = <<>>
    ELSE LET l == tokens[i].Label
         IN IF cur = <<>>
            THEN \/ l = <<"O">> /\ WellFormedFrom(tokens, i + 1, <<>>)
                 \/ \E t \in Types : l = Tag("S", t) /\ WellFormedFrom(tokens, i + 1, <<>>)
                 \/ \E t \in Types : l = Tag("B", t) /\ WellFormedFrom(tokens, i + 1, t)
            ELSE \/ l = Tag("I", cur) /\ WellFormedFrom(tokens, i + 1, cur)
                 \/ l = Tag("E", cur) /\ WellFormedFrom(tokens, i + 1, <<>>)

WellFormed(tokens) == WellFormedFrom(tokens, 1, <<>>)

\* tokens a..b are a run B-t, I-t*, E-t
IsRun(tokens, a, b, t) ==
    /\ 1 <= a /\ a < b /\ b <= Len(tokens)
    /\ tokens[a].Label = Tag("B", t)
    /\ tokens[b].Label = Tag("E", t)
    /\ \A j \in (a + 1)..(b - 1) : tokens[j].Label = Tag("I", t)

RECURSIVE JoinWords(_, _, _)
JoinWords(tokens, a, b) ==
    IF a = b THEN tokens[a].String
    ELSE JoinWords(tokens, a, b - 1) \o <<" ">> \o tokens[b].String

\* the entity a run stands for
RunEntity(tokens, a, b, t) ==
    [String |-> JoinWords(tokens, a, b),
     Offsets |-> [Start |-> tokens[a].Offsets.Start, End |-> tokens[b].Offsets.End],
     Label |-> t]

\* how many of the first n tokens are O, S or E tokens
EmitCount(tokens, n) ==
    Cardinality({j \in 1..n : /\ Len(tokens[j].Label) > 0
                              /\ tokens[j].Label[1] \in {"O", "S", "E"}})

Range(f) == {f[j] : j \in DOMAIN f}

\* C4: a run B-t, I-t*, E-t gives exactly one output, emitted when E is
\* processed: the texts joined by single spaces, the start offset of B, the
\* end offset of E and the label t; it stands unchanged in the result.
C4_RunMerged ==
    \A a \in 1..Len(dTokens), b \in 1..Len(dTokens), t \in Types :
        IsRun(dTokens, a, b, t) =>
            /\ (dPhase = "merge" /\ mIdx = b) =>
                  /\ Len(newTokens) = EmitCount(dTokens, a - 1) + 1
                  /\ newTokens[Len(newTokens)] = RunEntity(dTokens, a, b, t)
            /\ (dPhase = "merged" /\ dMode.merge) =>
                  result[EmitCount(dTokens, a - 1) + 1] = RunEntity(dTokens, a, b, t)

C4_Witness ==
    /\ dPhase = "merged" /\ dMode.merge
    /\ Len(dTokens) = 3
    /\ IsRun(dTokens, 1, 3, <<"L">>)

\* C5: on a well-formed BIOES sequence merging then filtering gives the same
\* entities as filtering then merging.
C5_MergeFilterCommute ==
    (dPhase = "done" /\ dMode.merge /\ dMode.filter /\ WellFormed(dTokens)) =>
        Range(result) = Range(mergeEntities(filterNotEntities(dTokens)).newTokens)

\* C6: mergeEntities never aborts, whatever the tags are.
C6_NeverAborts == dPhase # "panic"


\* ----- first steps and recurrence
\* the input that produced the history entry t of processor p
InputOf(p, t) == fed[p][t - (IF seeded[p] THEN 1 ELSE 0)]

\* the history entries of p that a step produced
StepEntries(p) == {t \in 1..Len(States[p]) : ~(seeded[p] /\ t = 1)}

\* C11: a RAN step with no previous state computes its gates from W.x + B
\* alone and its cell as C = InG * Cand; a step with a previous state adds a
\* forget term ForG * (previous value) to it, and only such a step does.
C11_RanFirstStep ==
    \A p \in procs : variant = "ran" =>
        \A t \in StepEntries(p) :
            LET s == States[p][t]
                x == InputOf(p, t)
            IN /\ s.Cand = Add(Param("BCand"), Mul(Param("WCand"), x))
               /\ t = 1 =>
                     /\ s.InG = Sigmoid(Add(Param("BIn"), Mul(Param("WIn"), x)))
                     /\ s.ForG = Sigmoid(Add(Param("BFor"), Mul(Param("WFor"), x)))
                     /\ s.C = Prod(s.InG, s.Cand)
               /\ t > 1 =>
                     /\ s.C[1] = "Add"
                     /\ s.C[2] = Prod(s.InG, s.Cand)
                     /\ s.C[3][1] = "Prod"
                     /\ s.C[3][2] = s.ForG
                     /\ s.C[3][3] # Nil

C11_Witness ==
    \E p \in procs : variant = "ran" /\ ~seeded[p] /\ Len(States[p]) >= 2

\* C12: a DeltaRNN step with no previous state gives
\* y = tanh(P * tanh(Beta1 * (W.x) + B)), P = sigmoid(W.x + BPart), and leaves
\* D2 nil; a step with a previous state uses the full formula with d2 and
\* the (1 - P) * yPrev term.
C12_DeltaFirstStep ==
    \A p \in procs : variant = "deltarnn" =>
        \A t \in StepEntries(p) :
            LET s  == States[p][t]
                wx == Mul(Param("W"), InputOf(p, t))
                pg == Sigmoid(Add(wx, Param("BPart")))
            IN /\ s.P = pg
               /\ t = 1 =>
                     /\ s.D2 = Nil
                     /\ s.Y = Tanh(Prod(pg, Tanh(Add(Prod(Param("Beta1"), wx),
                                                     Param("B")))))
               /\ t > 1 =>
                     LET yPrev == States[p][t - 1].Y
                         wyRec == Mul(Param("WRec"), yPrev)
                         d1 == Add(Prod(Param("Beta1"), wx),
                                   Prod(Param("Beta2"), wyRec))
                         d2 == Prod(Prod(Param("Alpha"), wx), wyRec)
                         c  == Tanh(Add(Add(d1, d2), Param("B")))
                     IN /\ s.D2 = d2
                        /\ s.C = c
                        /\ s.Y = Tanh(Add(Prod(pg, c),
                                          Prod(ReverseSub(pg, NewScalar(1)), yPrev)))

C12_Witness ==
    \E p \in procs : variant = "deltarnn" /\ ~seeded[p] /\ Len(States[p]) >= 2


\* ----- the decoder token by token
AllO(tokens) == \A j \in 1..Len(tokens) : tokens[j].Label = <<"O">>

\* C13: on a sequence of O tokens only, mergeEntities returns the sequence
\* unchanged and filterNotEntities, alone or after merging, returns the
\* empty sequence.
C13_AllO ==
    AllO(dTokens) =>
        /\ mergeEntities(dTokens).newTokens = dTokens
        /\ filterNotEntities(dTokens) = <<>>
        /\ (dPhase = "merged" /\ dMode.merge) => result = dTokens
        /\ (dPhase = "done" /\ dMode.merge /\ ~dMode.filter) => result = dTokens
        /\ (dPhase = "done" /\ dMode.filter) => result = <<>>

C13_Witness ==
    /\ AllO(dTokens) /\ Len(dTokens) = MaxTokens
    /\ dPhase = "done" /\ dMode.merge /\ dMode.filter

\* the token is tagged S-<type>
IsSingle(token) ==
    /\ Len(token.Label) >= 2
    /\ token.Label[1] = "S" /\ token.Label[2] = "-"

\* C14: an S-<type> token gives exactly one output of its own, with the
\* token's text and offsets and the label <type>; the accumulator (text
\* buffer, label, start offset) is left as it was.
C14_SingleStandalone ==
    [][(MergeIter /\ IsSingle(result[mIdx + 1])) =>
          /\ newTokens' = Append(newTokens,
                  [String |-> result[mIdx + 1].String,
                   Offsets |-> result[mIdx + 1].Offsets,
                   Label |-> From2(result[mIdx + 1].Label)])
          /\ buf' = buf
          /\ text' = text
          /\ dPhase' = "merge"]_vars

C14_Witness ==
    /\ dPhase = "merge" /\ mIdx >= 2
    /\ IsSingle(result[mIdx])
    /\ buf # ZeroToken /\ text # <<>>


\* C15: the importance of step i for itself is max(InG[i] * ForG[i]): the
\* accumulator starts as a copy of ForG[i].
C15_DiagonalScore ==
    \A p \in procs : pc[p] = "gotImportance" =>
        \A i \in 1..Len(importance[p]) :
            importance[p][i][i] =
                VMax(VProd(States[p][i].InGValue, States[p][i].ForGValue))

C15_Witness ==
    \E p \in procs : pc[p] = "gotImportance" /\ Len(States[p]) >= 2

\* the token makes mergeEntities append an output
IsEmitter(token) ==
    Len(token.Label) > 0 /\ token.Label[1] \in {"O", "S", "E"}

\* the index of the token that emits the m-th output
Emitter(tokens, m) ==
    CHOOSE j \in 1..Len(tokens) :
        IsEmitter(tokens[j]) /\ EmitCount(tokens, j) = m

\* C16: mergeEntities keeps the order of encounter: each output is emitted
\* by exactly one O, S or E token, and the m-th output comes from the m-th
\* such token, so the emitting indices increase strictly along the output.
C16_EncounterOrder ==
    (dPhase \in {"merge", "merged"} /\ dMode.merge) =>
        /\ Len(newTokens) = EmitCount(dTokens, mIdx)
        /\ \A m \in 1..Len(newTokens) :
              newTokens[m].Offsets.End =
                  dTokens[Emitter(dTokens, m)].Offsets.End
        /\ \A m \in 1..(Len(newTokens) - 1) :
              Emitter(dTokens, m) < Emitter(dTokens, m + 1)
        /\ dPhase = "merged" => result = newTokens

C16_Witness ==
    /\ dPhase = "merged" /\ dMode.merge
    /\ Len(result) = 2 /\ Len(dTokens) = 3
    /\ dTokens[1].Label[1] = "B" /\ dTokens[2].Label[1] = "E"
    /\ dTokens[3].Label = <<"O">>

\* C17: an output that has been emitted is not changed by the tokens after
\* it, and neither mergeEntities nor filterNotEntities changes an element of
\* its input.
C17_OutputsStable ==
    /\ [][MergeIter =>
             /\ Len(newTokens') >= Len(newTokens)
             /\ SubSeq(newTokens', 1, Len(newTokens)) = newTokens
             /\ result' = result
             /\ dTokens' = dTokens]_vars
    /\ [][FilterCall => (newTokens' = newTokens /\ dTokens' = dTokens)]_vars
    /\ [](dPhase \in {"start", "merge"} => result = dTokens)

C17_Witness ==
    /\ dPhase = "merge" /\ mIdx = 3 /\ Len(newTokens) = 2
    /\ newTokens[1].Label = newTokens[2].Label
    /\ newTokens[1].Offsets.Start = newTokens[2].Offsets.Start
    /\ newTokens[1].Offsets.End < newTokens[2].Offsets.End

\* no B token among the first n tokens
NoBegin(tokens, n) ==
    \A j \in 1..n : Len(tokens[j].Label) > 0 => tokens[j].Label[1] # "B"

\* C19: an I token appends " " and its text to the buffer and nothing else;
\* an E token appends likewise, sets the end offset and emits the entity with
\* the label and start offset the accumulator holds, B or no B: the empty
\* label and start 0 if no B came before, the label, start and text of the
\* previous entity if no B came since the last E.
C19_NoBegin ==
    /\ [][(MergeIter /\ Len(result[mIdx + 1].Label) > 0
                     /\ result[mIdx + 1].Label[1] = "I") =>
             /\ text' = text \o <<" ">> \o result[mIdx + 1].String
             /\ buf' = buf
             /\ newTokens' = newTokens]_vars
    /\ [][(MergeIter /\ Len(result[mIdx + 1].Label) > 0
                     /\ result[mIdx + 1].Label[1] = "E") =>
             LET e == [String |-> text \o <<" ">> \o result[mIdx + 1].String,
                       Offsets |-> [Start |-> buf.Offsets.Start,
                                    End |-> result[mIdx + 1].Offsets.End],
                       Label |-> buf.Label]
             IN /\ text' = e.String
                /\ buf' = e
                /\ newTokens' = Append(newTokens, e)]_vars
    /\ []((dPhase = "merge" /\ NoBegin(dTokens, mIdx)) =>
             /\ buf.Label = <<>>
             /\ buf.Offsets.Start = 0)

C19_Witness ==
    /\ dPhase = "merge" /\ mIdx = 2 /\ NoBegin(dTokens, 2)
    /\ dTokens[1].Label[1] = "I" /\ dTokens[2].Label[1] = "E"
    /\ newTokens = <<[String |-> <<" ">> \o dTokens[1].String \o <<" ">>
                                    \o dTokens[2].String,
                      Offsets |-> [Start |-> 0, End |-> dTokens[2].Offsets.End],
                      Label |-> <<>>]>>


\* ----- the history
\* the input node a state was computed from, read off its terms
InputTermOf(v, s) == IF v = "ran" THEN s.Cand[3][3] ELSE s.P[2][2][3]

\* the previous output a state was computed from, read off its terms; Nil
\* when the terms have no recurrent part
YPrevOf(v, s) ==
    IF v = "ran"
    THEN LET a == s.InG[2]
         IN IF a[2][1] = "Add" THEN a[3][3] ELSE Nil
    ELSE IF s.D2 = Nil THEN Nil ELSE s.D2[3][3]

\* C18: in both variants Forward processes its inputs strictly in order,
\* and the yPrev used for an input is the Y of the history entry just before
\* the one it produces (the state of the input before it, or the seed), never
\* an older entry and never one not yet appended; the first step of an
\* unseeded processor has none.
C18_InOrderPrev ==
    \A p \in procs :
        /\ \A t \in StepEntries(p) :
              /\ InputTermOf(variant, States[p][t]) = InputOf(p, t)
              /\ YPrevOf(variant, States[p][t]) =
                    (IF t = 1 THEN Nil ELSE States[p][t - 1].Y)
        /\ pc[p] \in {"forward", "returned"} =>
              /\ Len(States[p]) = hbase[p] + fi[p]
              /\ \A i \in 1..fi[p] :
                    InputTermOf(variant, States[p][hbase[p] + i]) = xs[p][i]

C18_Witness ==
    \E p \in procs :
        /\ pc[p] = "returned" /\ seeded[p] /\ Len(States[p]) = 3
        /\ Len(xs[p]) = 2 /\ xs[p][1] # xs[p][2]

\* C20: the history only grows by appending: its length is 1 if a seed was
\* set, else 0, plus the number of inputs processed by all calls so far; no
\* step changes, moves or removes an entry; and Forward called on xs and then
\* on ys leaves the history, and returns the outputs, that one call on xs
\* followed by ys gives.
C20_AppendOnly ==
    /\ [](\A p \in procs :
             LET whole == RunAlone(variant, seeded[p], fed[p])
             IN /\ Len(States[p]) = (IF seeded[p] THEN 1 ELSE 0) + Len(fed[p])
                /\ States[p] = whole
                /\ pc[p] = "returned" =>
                      \A i \in 1..Len(xs[p]) : ys[p][i] = whole[hbase[p] + i].Y)
    /\ [][\A p \in procs :
             /\ Len(States'[p]) >= Len(States[p])
             /\ SubSeq(States'[p], 1, Len(States[p])) = States[p]]_vars

C20_Witness ==
    \E p \in procs :
        /\ pc[p] = "returned" /\ ~seeded[p]
        /\ hbase[p] >= 1 /\ Len(xs[p]) >= 1 /\ Len(fed[p]) = 3


\* ----- Importance and the history
\* the table a call of Importance gives on the history states
ScoreOf(states, i, k) ==
    IF k > i THEN Zero
    ELSE VMax(VProd(At(states, k).InGValue,
                    VProd(At(states, i).ForGValue,
                          ForGProduct(states, k + 1, i))))

ImportanceOf(states) ==
    [r \in 1..Len(states) |-> [c \in 1..Len(states) |-> ScoreOf(states, r - 1, c - 1)]]

\* the steps of a call of Importance on processor p
ImportanceSteps(p) ==
    \/ ImportanceCall(p) \/ ScoresCall(p) \/ ScoresIter(p)
    \/ ScoresReturn(p) \/ ImportanceReturn(p) \/ ImportanceDone(p)

\* C21: Importance only reads the history: no step of it changes a state,
\* its InG and ForG values included (the accumulator is a copy of its own),
\* so that a second call on the same history, and the steps processed after
\* a call, give what they give without the call.
C21_ImportanceReadOnly ==
    /\ [][\A p \in procs : ImportanceSteps(p) => States'[p] = States[p]]_vars
    /\ [](\A p \in procs :
             /\ States[p] = RunAlone(variant, seeded[p], fed[p])
             /\ pc[p] = "gotImportance" =>
                   importance[p] = ImportanceOf(RunAlone(variant, seeded[p], fed[p])))

C21_Witness ==
    \E p \in procs :
        /\ pc[p] = "gotImportance" /\ impCalls[p] = 2
        /\ Len(States[p]) >= 2


\* ----- what mergeEntities lets through
\* the tag of token j begins with one of the characters cs
Begins(tokens, j, cs) ==
    Len(tokens[j].Label) > 0 /\ tokens[j].Label[1] \in cs

\* tokens a..b are a whole run B(I)* that no E closes: after it the input
\* ends, or a B comes before the next E
UnclosedRun(tokens, a, b) ==
    /\ 1 <= a /\ a <= b /\ b <= Len(tokens)
    /\ Begins(tokens, a, {"B"})
    /\ \A j \in (a + 1)..b : Begins(tokens, j, {"I"})
    /\ b < Len(tokens) => ~Begins(tokens, b + 1, {"I"})
    /\ \A e \in (b + 1)..Len(tokens) :
          Begins(tokens, e, {"E"}) =>
              \E j \in (b + 1)..(e - 1) : Begins(tokens, j, {"B"})

\* the word w stands in the string s
Contains(s, w) ==
    \E a \in 1..(Len(s) - Len(w) + 1) : SubSeq(s, a, a + Len(w) - 1) = w

\* the output o holds the token: its text, or its place in the input
Holds(o, token) ==
    \/ Contains(o.String, token.String)
    \/ /\ o.Offsets.Start <= token.Offsets.Start
       /\ token.Offsets.End <= o.Offsets.End

====
